---- MODULE Spec2Model ----
(***************************************************************************)
(* gofs: the remote-client monitor (monitor/remote_client_monitor.go) and  *)
(* the push-client synchronizer (sync/push_client_sync.go) as state        *)
(* machines.                                                               *)
(*                                                                         *)
(* SpecSession : the monitor's session: Start, auth, sync, the receive     *)
(*               loop with its reconnect branch, the shutdown watcher.     *)
(* SpecStream  : the monitor's message stream and the processor.           *)
(* FairStream  : SpecStream with the fairness Go's scheduler gives.        *)
(* SpecPush    : the push pipeline: Create/Write/Remove/Rename, SyncOnce,  *)
(*               send and httpPostWithAuth.                                *)
(***************************************************************************)
EXTENDS Integers, Sequences, FiniteSets, TLC

\* ------------------------------------------------------------------ bounds
\* reconnect cycles of the receive loop (and peer drops) in one behaviour
MaxReconnect == 2
\* attempts retry.Do makes before it gives up
RetryCount == 2
\* SyncMessage frames the server sends in one behaviour
MaxMsgs == 2
\* cron-triggered sync() calls in one behaviour
MaxSync == 1

\* calls made on the push client from outside in one behaviour
MaxOps == 1

\* goroutines authCheck() starts on one connection in one behaviour
MaxCheckers == 2

\* entries of the directory readDir lists
MaxFiles == 2

\* characters in the Path of a message, and in its Hash
MaxPathLen == 3
MaxHashLen == 1

\* make(chan contract.Status, 100) / make(chan contract.Message, 100)
ChanCap == 100

\* authCheck: conn.connTime.Add(time.Minute), in seconds
AuthCheckLimit == 60

\* readDir: maxCalcSizeSingle (15G) and maxCalcSizeSum (500G), in KiB
MaxCalcSizeSingle == 15728640
MaxCalcSizeSum == 524288000

\* ------------------------------------------------------- monitor variables
VARIABLES
    currentUser,  \* m.currentUser != nil
    syncOnce,     \* m.syncOnce
    connected,    \* !m.client.IsClosed()
    gen,          \* connection generation: successful Connect() calls so far
    closed,       \* m.closed
    shutdownReq,  \* a value is available on m.shutdown (Shutdown() was called)
    shutdown,     \* the cbool `shutdown` local to receive()
    authorized,   \* m.authorized
    authChan,     \* m.authChan
    infoChan,     \* m.infoChan
    messages,     \* m.messages
    startPc,      \* position of Start()
    recvPc,       \* position of the receive goroutine
    frame,        \* the frame ReadAll returned to the receive goroutine
    attempts,     \* failed attempts of the running retry.Do
    reconnects,   \* reconnect cycles so far
    watchPc,      \* position of the shutdown watcher goroutine
    wd,           \* first completion of the wait handle: none | ok | err
    procPc,       \* position of processingMessage
    element,      \* the element processingMessage took with Front()
    authWaiters,  \* auth() invocations waiting in their select
    authWriters,  \* auth() invocations whose writer goroutine has not run
    nextAuth,     \* id of the next auth() invocation
    srvAuth,      \* auth commands the server got on this connection, unanswered
    syncWaiters,  \* sync() invocations waiting in their select
    infoWriters,  \* sync() invocations whose writer goroutine has not run
    srvInfo,      \* info commands the server got on this connection, unanswered
    syncs,        \* cron-triggered sync() calls so far
    nextMsg,      \* sequence number of the next SyncMessage read
    srvMsgs,      \* monitor messages the server has yet to send
    applied,      \* syncer calls made by the processor, in order
    authOkConn,   \* an Auth reply with Code=Success was read on this connection
    infoUnauth,   \* an InfoCommand was written on a connection before that
    authOverlap,  \* an auth() call was made while another was not finished
    payloads,     \* what the monitor messages of the server can hold
    syncerErrs,   \* what a call of the local syncer can return
    lastMsg,      \* the message processingMessage handled last
    lastCalls,    \* the calls it made for it, in order
    lastErr,      \* the err it was left with: - | nil | err | notexist
    taken         \* how often each message was handled

monCfg  == <<currentUser, syncOnce, payloads, syncerErrs>>
monConn == <<connected, gen, srvAuth, srvInfo, authOkConn>>
monFlag == <<closed, shutdownReq, shutdown, authorized>>
monChan == <<authChan, infoChan, messages>>
monRecv == <<recvPc, frame, attempts, reconnects, nextMsg, srvMsgs>>
monAuth == <<authWaiters, authWriters, nextAuth, authOverlap>>
monSync == <<syncWaiters, infoWriters, syncs, infoUnauth>>
monProc == <<procPc, element, applied>>
procLog == <<lastMsg, lastCalls, lastErr, taken>>
monWait == <<watchPc, wd>>
monVars == <<monCfg, monConn, monFlag, monChan, monRecv, monAuth, monSync,
             monProc, procLog, monWait, startPc>>

\* --------------------------------------------------- push-client variables
VARIABLES
    pushUser,     \* pcs.currentUser != nil
    localSync,    \* !pcs.dest.LocalSyncDisabled()
    tree,         \* the entries under the source root
    ignored,      \* the paths ignore.MatchPath matches
    cookies,      \* pcs.cookies
    pc,           \* position of the push client
    ops,          \* calls made on the push client from outside so far
    cur,          \* the running Create/Write/Remove/Rename call
    walk,         \* entries filepath.WalkDir has yet to visit
    walkRoot,     \* the root of the running or last SyncOnce
    inWalk,       \* the running call was made by the SyncOnce callback
    events,       \* Create/Write calls made by the SyncOnce callback
    result,       \* what the outermost call returned: none | ok | err
    disk,         \* the diskSync mutation the running call invoked
    diskRes,      \* and what it returned
    sentWith,     \* cookies of each POST the running call made
    signIns,      \* client.SignIn calls the running call made
    signRes,      \* what SignIn returned: none | err | empty | cookies
    resp1,        \* answer to the first POST: none | err | 200 | 401 | 404
    curRes,       \* what the running call returned: run | ok | err
    posts         \* the POSTs made since the outermost call began, in order

pushCfg == <<pushUser, localSync, tree, ignored>>
pushEvt == <<disk, diskRes, sentWith, signIns, signRes, resp1, curRes>>
pushVars == <<pushCfg, cookies, pc, ops, cur, walk, walkRoot, inWalk, events, result,
              pushEvt, posts>>

\* ------------------------------------------ the push client's handshake
VARIABLES
    hsUser,       \* pcs.currentHashUser != nil
    hsConn,       \* !pcs.client.IsClosed()
    hsPc,         \* position of start()
    hsErr,        \* what start() returned: none | nil | connect | auth | info
    hsRecvPc,     \* position of the goroutine receive() started
    hsFrame,      \* the frame ReadAll returned to it
    hsAuthChan,   \* pcs.authChan
    hsInfoChan,   \* pcs.infoChan
    hsWriter,     \* the writer goroutine of auth() or info() has yet to run
    hsSrv,        \* the commands the server got and has not answered
    hsDups        \* redundant Auth responses the server has yet to send

hsVars == <<hsUser, hsConn, hsPc, hsErr, hsRecvPc, hsFrame, hsAuthChan, hsInfoChan,
            hsWriter, hsSrv, hsDups>>

\* ------------------------------------- the URL the processor builds
VARIABLES
    urlIn,        \* BaseUrl, Path and Hash of the sync.Message
    urlOut        \* the URL built from them, once built

urlVars == <<urlIn, urlOut>>

\* ------------------------------------------- the FileInfo records built
VARIABLES
    sendIn,       \* send(act, path): the action, and what the path is
    sendOut,      \* what send did (none | err | nil | sent) and the FileInfo posted
    dirIn,        \* readDir: the entries of the directory and the two flags
    dirOut,       \* the fileList readDir has built so far
    calcSizeSum   \* calcSizeSum of readDir

fiVars == <<sendIn, sendOut, dirIn, dirOut, calcSizeSum>>

\* ------------------------------------- a connection on the server side
VARIABLES
    connAuthorized,  \* conn.authorized
    startAuthCheck,  \* conn.startAuthCheck
    connOpen,        \* the net.Conn has not been closed
    now,             \* seconds since conn.connTime
    checkPc,         \* position of each goroutine authCheck() started
    checkEnd,        \* why each left its loop: none | stopped | authorized | closed
    closedAt         \* when an auth check closed the connection, -1 before

connVars == <<connAuthorized, startAuthCheck, connOpen, now, checkPc, checkEnd,
              closedAt>>

auxVars == <<hsVars, urlVars, fiVars, connVars>>
notHs == <<monVars, pushVars, urlVars, fiVars, connVars>>
notUrl == <<monVars, pushVars, hsVars, fiVars, connVars>>
notFi == <<monVars, pushVars, hsVars, urlVars, connVars>>
notConn == <<monVars, pushVars, hsVars, urlVars, fiVars>>

vars == <<monVars, pushVars, auxVars>>

NoFrame == [api |-> "None", req |-> 0, code |-> "-", id |-> 0, kind |-> "-",
            act |-> "-"]
NoElement == [id |-> 0, kind |-> "-", act |-> "-", gen |-> 0]

\* the id of the auth() call Start() makes
StartAuth == 1

\* what a SyncMessage payload turns out to be in processingMessage:
\* ok (applied), bad (unmarshal error), errcode (msg.Code != Success),
\* ignore (ignore.MatchPath)
MsgKinds == {"ok", "ignore", "bad", "errcode"}

\* msg.Action of a message
Actions == {"Create", "Write", "Remove", "Rename", "Chmod", "Symlink"}

\* the payloads: a well-formed message that is not ignored has an action
Payloads ==
    [kind : {"ok"}, act : Actions] \cup [kind : MsgKinds \ {"ok"}, act : {"-"}]

\* what a syncer call returns: nil, an error, an error with os.IsNotExist
SyncerResults == {"nil", "err", "notexist"}

\* the monitor as NewRemoteClientMonitor leaves it
MonInit ==
    /\ connected = FALSE
    /\ gen = 0
    /\ closed = FALSE
    /\ shutdownReq = FALSE
    /\ shutdown = FALSE
    /\ authorized = FALSE
    /\ authChan = <<>>
    /\ infoChan = <<>>
    /\ messages = <<>>
    /\ startPc = "init"
    /\ recvPc = "off"
    /\ frame = NoFrame
    /\ attempts = 0
    /\ reconnects = 0
    /\ watchPc = "off"
    /\ wd = "none"
    /\ procPc = "off"
    /\ element = NoElement
    /\ authWaiters = {}
    /\ authWriters = {}
    /\ nextAuth = StartAuth
    /\ srvAuth = {}
    /\ syncWaiters = 0
    /\ infoWriters = 0
    /\ srvInfo = 0
    /\ syncs = 0
    /\ nextMsg = 1
    /\ applied = <<>>
    /\ lastMsg = NoElement
    /\ lastCalls = <<>>
    /\ lastErr = "-"
    /\ taken = [i \in 1..MaxMsgs |-> 0]
    /\ authOkConn = FALSE
    /\ infoUnauth = FALSE
    /\ authOverlap = FALSE

\* ------------------------------------------------------------------ auth()
\* auth() calls that have not finished: waiting, or with a command not yet
\* written or not yet answered
AuthOutstanding == authWaiters \cup authWriters \cup srvAuth

\* auth(), up to its select: nothing without a user; else the writer
\* goroutine is spawned and the call waits on authChan
AuthCall ==
    IF currentUser
    THEN /\ authWriters' = authWriters \cup {nextAuth}
         /\ authWaiters' = authWaiters \cup {nextAuth}
         /\ nextAuth' = nextAuth + 1
         /\ authOverlap' = (authOverlap \/ AuthOutstanding # {})
    ELSE UNCHANGED monAuth

\* the writer goroutine of auth(): retry.Do(client.Write(authData)); on a
\* closed transport every attempt fails and the command is never sent
AuthWrite(id) ==
    /\ id \in authWriters
    /\ authWriters' = authWriters \ {id}
    /\ srvAuth' = IF connected THEN srvAuth \cup {id} ELSE srvAuth
    /\ UNCHANGED <<auxVars, pushVars, procLog, monCfg, connected, gen, srvInfo, authOkConn, monFlag,
                   monChan, monRecv, authWaiters, nextAuth, authOverlap, monSync, monProc,
                   monWait, startPc>>

\* what Start() does with the result of its auth() call
StartAfterAuth(id, ok) ==
    IF id = StartAuth /\ startPc = "auth"
    THEN IF ok THEN "authed" ELSE "failed"
    ELSE startPc

\* auth(): case status = <-m.authChan, then the Code check and authorized = true
AuthReply(id) ==
    /\ id \in authWaiters
    /\ authChan # <<>>
    /\ authChan' = Tail(authChan)
    /\ authWaiters' = authWaiters \ {id}
    /\ authorized' = IF Head(authChan).code = "ok" THEN TRUE ELSE authorized
    /\ startPc' = StartAfterAuth(id, Head(authChan).code = "ok")
    /\ UNCHANGED <<auxVars, pushVars, procLog, monCfg, monConn, closed, shutdownReq, shutdown, infoChan,
                   messages, monRecv, authWriters, nextAuth, authOverlap, monSync, monProc,
                   monWait>>

\* auth(): case <-time.After(timeout)
AuthTimeout(id) ==
    /\ id \in authWaiters
    /\ authWaiters' = authWaiters \ {id}
    /\ startPc' = StartAfterAuth(id, FALSE)
    /\ UNCHANGED <<auxVars, pushVars, procLog, monCfg, monConn, monFlag, monChan, monRecv, authWriters,
                   nextAuth, authOverlap, monSync, monProc, monWait>>

\* ----------------------------------------------------------------- Start()
\* Start(): client.Connect(), receive() (both goroutines), then auth()
StartConnect ==
    /\ startPc = "init"
    /\ \E ok \in BOOLEAN :
        IF ok
        THEN /\ connected' = TRUE
             /\ gen' = gen + 1
             /\ recvPc' = "top"
             /\ watchPc' = "wait"
             /\ AuthCall
             /\ startPc' = IF currentUser THEN "auth" ELSE "authed"
        ELSE /\ startPc' = "failed"
             /\ UNCHANGED <<connected, gen, recvPc, watchPc, monAuth>>
    /\ UNCHANGED <<auxVars, pushVars, procLog, monCfg, srvAuth, srvInfo, authOkConn, monFlag, monChan,
                   frame, attempts, reconnects, nextMsg, srvMsgs, monSync, monProc, wd>>

\* sync(), up to its select: the writer goroutine is spawned and the call
\* waits on infoChan
SyncCall ==
    /\ infoWriters' = infoWriters + 1
    /\ syncWaiters' = syncWaiters + 1

\* Start() after auth(): syncAndWaitShutdown with -sync_once, else startCron,
\* the processor goroutine and w.Wait()
StartLaunch ==
    /\ startPc = "authed"
    /\ IF syncOnce
       THEN /\ SyncCall
            /\ startPc' = "sync"
            /\ UNCHANGED procPc
       ELSE /\ procPc' = "front"
            /\ startPc' = "wait"
            /\ UNCHANGED <<infoWriters, syncWaiters>>
    /\ UNCHANGED <<auxVars, pushVars, procLog, monCfg, monConn, monFlag, monChan, monRecv, monAuth, syncs,
                   infoUnauth, element, applied, monWait>>

\* the cron job started by startCron(m.sync) fires; the job waits for the
\* previous run to return
CronSync ==
    /\ startPc = "wait"
    /\ ~syncOnce
    /\ syncs < MaxSync
    /\ syncWaiters = 0
    /\ SyncCall
    /\ syncs' = syncs + 1
    /\ UNCHANGED <<auxVars, pushVars, procLog, monCfg, monConn, monFlag, monChan, monRecv, monAuth,
                   infoUnauth, monProc, monWait, startPc>>

\* the writer goroutine of sync(): client.Write(contract.InfoCommand)
InfoWrite ==
    /\ infoWriters > 0
    /\ infoWriters' = infoWriters - 1
    /\ srvInfo' = IF connected THEN srvInfo + 1 ELSE srvInfo
    /\ infoUnauth' = (infoUnauth \/ (connected /\ currentUser /\ ~authOkConn))
    /\ UNCHANGED <<auxVars, pushVars, procLog, monCfg, connected, gen, srvAuth, authOkConn, monFlag,
                   monChan, monRecv, monAuth, syncWaiters, syncs, monProc,
                   monWait, startPc>>

\* sync(): case infoMsg = <-m.infoChan, Unmarshal, the Code check and
\* syncer.SyncOnce; in syncAndWaitShutdown a nil result is followed by
\* Shutdown()
SyncReply ==
    /\ syncWaiters > 0
    /\ infoChan # <<>>
    /\ infoChan' = Tail(infoChan)
    /\ syncWaiters' = syncWaiters - 1
    /\ IF startPc = "sync"
       THEN IF Head(infoChan).code = "ok"
            THEN shutdownReq' = TRUE /\ startPc' = "wait"
            ELSE startPc' = "failed" /\ UNCHANGED shutdownReq
       ELSE UNCHANGED <<shutdownReq, startPc>>
    /\ UNCHANGED <<auxVars, pushVars, procLog, monCfg, monConn, closed, shutdown, authorized, authChan,
                   messages, monRecv, monAuth, infoWriters, syncs, infoUnauth,
                   monProc, monWait>>

\* sync(): case <-time.After(timeout)
SyncTimeout ==
    /\ syncWaiters > 0
    /\ syncWaiters' = syncWaiters - 1
    /\ startPc' = IF startPc = "sync" THEN "failed" ELSE startPc
    /\ UNCHANGED <<auxVars, pushVars, procLog, monCfg, monConn, monFlag, monChan, monRecv, monAuth,
                   infoWriters, syncs, infoUnauth, monProc, monWait>>

\* Start(): w.Wait() returns once the wait handle is completed
StartReturn ==
    /\ startPc = "wait"
    /\ wd # "none"
    /\ startPc' = "returned"
    /\ UNCHANGED <<auxVars, pushVars, procLog, monCfg, monConn, monFlag, monChan, monRecv, monAuth,
                   monSync, monProc, monWait>>

\* Shutdown() called from outside (signal handler) on a started monitor
Shutdown ==
    /\ watchPc = "wait"
    /\ ~shutdownReq
    /\ shutdownReq' = TRUE
    /\ UNCHANGED <<auxVars, pushVars, procLog, monCfg, monConn, closed, shutdown, authorized, monChan,
                   monRecv, monAuth, monSync, monProc, monWait, startPc>>

\* ------------------------------------------------- receive(): the watcher
\* case <-shutdown.SetC(<-m.shutdown): the flag is set as the value arrives
WatchShutdown ==
    /\ watchPc = "wait"
    /\ shutdownReq
    /\ shutdown' = TRUE
    /\ watchPc' = "close"
    /\ UNCHANGED <<auxVars, pushVars, procLog, monCfg, monConn, closed, shutdownReq, authorized, monChan,
                   monRecv, monAuth, monSync, monProc, wd, startPc>>

\* m.Close(): closed.Set(true), then client.Close()
Close ==
    /\ closed' = TRUE
    /\ connected' = FALSE
    /\ srvAuth' = {}
    /\ srvInfo' = 0

\* the watcher: if shutdown.Get() { m.Close() ...
WatchClose ==
    /\ watchPc = "close"
    /\ Close
    /\ watchPc' = "done"
    /\ UNCHANGED <<auxVars, pushVars, procLog, monCfg, gen, authOkConn, shutdownReq, shutdown, authorized,
                   monChan, monRecv, monAuth, monSync, monProc, wd, startPc>>

\* the watcher: ... wd.Done() }
WatchDone ==
    /\ watchPc = "done"
    /\ wd' = IF wd = "none" THEN "ok" ELSE wd
    /\ watchPc' = "end"
    /\ UNCHANGED <<auxVars, pushVars, procLog, monCfg, monConn, monFlag, monChan, monRecv, monAuth,
                   monSync, monProc, startPc>>

\* Close() has returned to its caller
CloseReturned == watchPc \in {"done", "end"}

\* --------------------------------------------- receive(): the receive loop
\* top of the loop: if m.closed.Get() { wd.DoneWithError(...); break }
RecvTop ==
    /\ recvPc = "top"
    /\ IF closed
       THEN /\ wd' = IF wd = "none" THEN "err" ELSE wd
            /\ recvPc' = "exit"
       ELSE /\ recvPc' = "read"
            /\ UNCHANGED wd
    /\ UNCHANGED <<auxVars, pushVars, procLog, monCfg, monConn, monFlag, monChan, frame, attempts,
                   reconnects, nextMsg, srvMsgs, monAuth, monSync, monProc, watchPc,
                   startPc>>

\* the peer drops the TCP connection
ServerDrop ==
    /\ connected
    /\ reconnects < MaxReconnect
    /\ connected' = FALSE
    /\ srvAuth' = {}
    /\ srvInfo' = 0
    /\ UNCHANGED <<auxVars, pushVars, procLog, monCfg, gen, authOkConn, monFlag, monChan, monRecv, monAuth,
                   monSync, monProc, monWait, startPc>>

\* frames the server can have sent on this connection: a reply to an auth
\* command it got, a reply to an info command it got, and, while it has
\* something to stream, the next monitor message or a frame of an ApiType
\* the client does not know
AuthFrames ==
    {[api |-> "Auth", req |-> r, code |-> c, id |-> 0, kind |-> "-",
         act |-> "-"] :
        r \in srvAuth, c \in {"ok", "fail"}}
InfoFrames ==
    IF srvInfo > 0
    THEN {[api |-> "Info", req |-> 0, code |-> c, id |-> 0, kind |-> "-",
         act |-> "-"] :
            c \in {"ok", "fail"}}
    ELSE {}
SyncFrames ==
    IF srvMsgs > 0
    THEN {[api |-> "Sync", req |-> 0, code |-> "ok", id |-> nextMsg, kind |-> pl.kind,
           act |-> pl.act] : pl \in payloads}
    ELSE {}
UnknownFrames ==
    IF srvMsgs > 0
    THEN {[api |-> "Unknown", req |-> 0, code |-> "-", id |-> 0, kind |-> "-",
           act |-> "-"]}
    ELSE {}

\* data, err := m.client.ReadAll() with err == nil, and Unmarshal of the Status
RecvFrame ==
    /\ recvPc = "read"
    /\ connected
    /\ \E f \in AuthFrames \cup InfoFrames \cup SyncFrames \cup UnknownFrames :
        /\ frame' = f
        /\ srvAuth' = IF f.api = "Auth" THEN srvAuth \ {f.req} ELSE srvAuth
        /\ srvInfo' = IF f.api = "Info" THEN srvInfo - 1 ELSE srvInfo
        /\ nextMsg' = IF f.api = "Sync" THEN nextMsg + 1 ELSE nextMsg
        /\ srvMsgs' = IF f.api \in {"Sync", "Unknown"} THEN srvMsgs - 1 ELSE srvMsgs
        /\ authOkConn' = (authOkConn \/ (f.api = "Auth" /\ f.code = "ok"))
    /\ recvPc' = "dispatch"
    /\ UNCHANGED <<auxVars, pushVars, procLog, monCfg, connected, gen, monFlag, monChan, attempts,
                   reconnects, monAuth, monSync, monProc, monWait, startPc>>

\* ReadAll returned an error: break on shutdown; on a closed transport
\* authorized = false and the reconnect starts; else log and read again
RecvError ==
    /\ recvPc = "read"
    /\ IF shutdown
       THEN /\ recvPc' = "exit"
            /\ UNCHANGED <<authorized, attempts, reconnects>>
       ELSE IF ~connected
            THEN /\ reconnects < MaxReconnect
                 /\ authorized' = FALSE
                 /\ attempts' = 0
                 /\ reconnects' = reconnects + 1
                 /\ recvPc' = "retry"
            ELSE /\ recvPc' = "top"
                 /\ UNCHANGED <<authorized, attempts, reconnects>>
    /\ UNCHANGED <<auxVars, pushVars, procLog, monCfg, monConn, closed, shutdownReq, shutdown, monChan,
                   frame, nextMsg, srvMsgs, monAuth, monSync, monProc, monWait, startPc>>

\* one attempt of m.retry.Do(func): Connect() if the client is closed; the
\* retry ends on a nil result or after RetryCount failures
RecvRetry ==
    /\ recvPc = "retry"
    /\ IF ~connected
       THEN \E ok \in BOOLEAN :
            IF ok
            THEN /\ connected' = TRUE
                 /\ gen' = gen + 1
                 /\ authOkConn' = FALSE
                 /\ recvPc' = "reconnected"
                 /\ UNCHANGED attempts
            ELSE /\ attempts' = attempts + 1
                 /\ recvPc' = IF attempts + 1 >= RetryCount
                              THEN "reconnected" ELSE "retry"
                 /\ UNCHANGED <<connected, gen, authOkConn>>
       ELSE /\ recvPc' = "reconnected"
            /\ UNCHANGED <<connected, gen, authOkConn, attempts>>
    /\ UNCHANGED <<auxVars, pushVars, procLog, monCfg, srvAuth, srvInfo, monFlag, monChan, frame,
                   reconnects, nextMsg, srvMsgs, monAuth, monSync, monProc, monWait,
                   startPc>>

\* after the retry: if !m.authorized { go m.auth() }
RecvReauth ==
    /\ recvPc = "reconnected"
    /\ IF ~authorized THEN AuthCall ELSE UNCHANGED monAuth
    /\ recvPc' = "top"
    /\ UNCHANGED <<auxVars, pushVars, procLog, monCfg, monConn, monFlag, monChan, frame, attempts,
                   reconnects, nextMsg, srvMsgs, monSync, monProc, monWait, startPc>>

\* a receive loop that puts the new message in front of the waiting ones
PushFront(q, f) ==
    <<[id |-> f.id, kind |-> f.kind, act |-> f.act, gen |-> gen]>> \o q

\* case contract.SyncMessageApi: m.messages.PushBack(contract.NewMessage(data))
PushBack(q, f) ==
    Append(q, [id |-> f.id, kind |-> f.kind, act |-> f.act, gen |-> gen])

\* switch status.ApiType: a channel send blocks while the channel is full
RecvDispatch ==
    /\ recvPc = "dispatch"
    /\ CASE frame.api = "Auth" ->
              /\ Len(authChan) < ChanCap
              /\ authChan' = Append(authChan,
                                [req |-> frame.req, code |-> frame.code, gen |-> gen])
              /\ UNCHANGED <<infoChan, messages>>
         [] frame.api = "Info" ->
              /\ Len(infoChan) < ChanCap
              /\ infoChan' = Append(infoChan, [code |-> frame.code, gen |-> gen])
              /\ UNCHANGED <<authChan, messages>>
         [] frame.api = "Sync" ->
              /\ messages' = PushBack(messages, frame)
              /\ UNCHANGED <<authChan, infoChan>>
         [] OTHER -> UNCHANGED monChan
    /\ frame' = NoFrame
    /\ recvPc' = "top"
    /\ UNCHANGED <<auxVars, pushVars, procLog, monCfg, monConn, monFlag, attempts, reconnects, nextMsg, srvMsgs,
                   monAuth, monSync, monProc, monWait, startPc>>

\* ------------------------------------------------------ processingMessage
\* element := m.messages.Front(); nothing there: sleep a second
ProcFront ==
    /\ procPc = "front"
    /\ IF messages = <<>>
       THEN procPc' = "sleep" /\ UNCHANGED element
       ELSE procPc' = "apply" /\ element' = Head(messages)
    /\ UNCHANGED <<auxVars, pushVars, procLog, monCfg, monConn, monFlag, monChan, monRecv, monAuth,
                   monSync, applied, monWait, startPc>>

\* <-time.After(time.Second); continue
ProcWake ==
    /\ procPc = "sleep"
    /\ procPc' = "front"
    /\ UNCHANGED <<auxVars, pushVars, procLog, monCfg, monConn, monFlag, monChan, monRecv, monAuth,
                   monSync, element, applied, monWait, startPc>>

\* a processor that leaves a message it could not apply in the list
KeepFailed(q, e) ==
    IF e.kind = "ok" THEN SelectSeq(q, LAMBDA x : x.id # e.id) ELSE q

\* m.messages.Remove(element)
Remove(q, e) == SelectSeq(q, LAMBDA x : x.id # e.id)

\* the action switch: the calls made for a well-formed message that is not
\* ignored; there is no case for a Symlink. Nothing is called for a
\* message that does not unmarshal, has an error Code or is ignored
SyncerCalls(e) ==
    CASE e.kind # "ok" -> <<>>
      [] e.act = "Create" -> <<"syncer.Create">>
      [] e.act = "Write" -> <<"syncer.Create", "addWrite">>
      [] e.act = "Remove" -> <<"removeWrite", "syncer.Remove">>
      [] e.act = "Rename" -> <<"syncer.Rename">>
      [] e.act = "Chmod" -> <<"syncer.Chmod">>
      [] OTHER -> <<>>

\* the err the switch is left with when the syncer call returned r: a Write
\* drops a not-exist error of its Create
SwitchErr(e, r) ==
    CASE SyncerCalls(e) = <<>> -> "nil"
      [] e.act = "Write" /\ r = "notexist" -> "nil"
      [] OTHER -> r

\* the syncer call of a well-formed, not ignored message
Apply(log, e) ==
    IF SyncerCalls(e) # <<>>
    THEN Append(log, [id |-> e.id, gen |-> e.gen, afterClose |-> CloseReturned])
    ELSE log

\* Unmarshal, the Code and ignore checks, the action switch with its syncer
\* call, then m.messages.Remove(element)
ProcApply ==
    /\ procPc = "apply"
    /\ applied' = Apply(applied, element)
    /\ lastMsg' = element
    /\ lastCalls' = SyncerCalls(element)
    /\ \E r \in syncerErrs :
          lastErr' = IF element.kind = "ok" THEN SwitchErr(element, r) ELSE "-"
    /\ taken' = [taken EXCEPT ![element.id] = @ + 1]
    /\ messages' = Remove(messages, element)
    /\ element' = NoElement
    /\ procPc' = "front"
    /\ UNCHANGED <<auxVars, pushVars, monCfg, monConn, monFlag, authChan, infoChan, monRecv,
                   monAuth, monSync, monWait, startPc>>

\* ------------------------------------------------------- the push client
\* The source tree: /tmp/src/{dir1/, dir1/a, b} or a part of it.
\* filepath.WalkDir visits the root first and every directory's entries in
\* lexical order of their names, so b comes before dir1.
WalkOrder == <<"r", "r/b", "r/dir1", "r/dir1/a">>
Paths == {WalkOrder[i] : i \in 1..Len(WalkOrder)}
Dirs == {"r", "r/dir1"}
Parent == [p \in Paths \ {"r"} |->
              IF p = "r/dir1/a" THEN "r/dir1" ELSE "r"]
Trees == {t \in SUBSET Paths :
            "r" \in t /\ \A p \in t \ {"r"} : Parent[p] \in t}

RECURSIVE Under(_, _)
Under(p, root) ==
    \/ p = root
    \/ p # "r" /\ Under(Parent[p], root)

\* a walk that hands only the entries below the root to the callback
WalkListNoRoot(root) ==
    SelectSeq(WalkOrder, LAMBDA p : p \in tree /\ p # root /\ Under(p, root))

\* the entries WalkDir(root) visits, in its order
WalkList(root) ==
    SelectSeq(WalkOrder, LAMBDA p : p \in tree /\ Under(p, root))

Ops == {"Create", "Write", "Remove", "Rename"}
NoCall == [op |-> "None", path |-> "-"]

\* the push client as NewPushClientSync returns it
PushInit ==
    /\ pushUser \in BOOLEAN
    /\ localSync \in BOOLEAN
    /\ tree \in Trees
    /\ ignored \in SUBSET tree
    /\ cookies = "none"
    /\ pc = "idle"
    /\ ops = 0
    /\ cur = NoCall
    /\ walk = <<>>
    /\ walkRoot = "-"
    /\ inWalk = FALSE
    /\ events = <<>>
    /\ result = "none"
    /\ disk = "none"
    /\ diskRes = "none"
    /\ sentWith = <<>>
    /\ signIns = 0
    /\ signRes = "none"
    /\ resp1 = "none"
    /\ curRes = "none"
    /\ posts = <<>>

\* entry of pcs.Create / Write / Remove / Rename
BeginCall(op, p, w) ==
    /\ cur' = [op |-> op, path |-> p]
    /\ inWalk' = w
    /\ disk' = "none"
    /\ diskRes' = "none"
    /\ sentWith' = <<>>
    /\ signIns' = 0
    /\ signRes' = "none"
    /\ resp1' = "none"
    /\ curRes' = "run"
    /\ pc' = "disk"

\* a call from outside (the local monitor's event)
Outside(op, p) ==
    /\ pc = "idle"
    /\ ops < MaxOps
    /\ ops' = ops + 1
    /\ BeginCall(op, p, FALSE)
    /\ walk' = <<>>
    /\ walkRoot' = "-"
    /\ events' = <<>>
    /\ result' = "none"
    /\ posts' = <<>>
    /\ UNCHANGED <<auxVars, monVars, pushCfg, cookies>>

PcsCreate(p) == Outside("Create", p)
PcsWrite(p) == Outside("Write", p)
PcsRemove(p) == Outside("Remove", p)
PcsRename(p) == Outside("Rename", p)

\* SyncOnce called from outside: filepath.WalkDir(absPath, ...)
PcsSyncOnce(p) ==
    /\ pc = "idle"
    /\ ops < MaxOps
    /\ ops' = ops + 1
    /\ walk' = WalkList(p)
    /\ walkRoot' = p
    /\ events' = <<>>
    /\ result' = "none"
    /\ posts' = <<>>
    /\ pc' = "walk"
    /\ UNCHANGED <<auxVars, monVars, pushCfg, cookies, cur, inWalk, pushEvt>>

\* the diskSync method each call invokes: Rename calls diskSync.Remove
DiskOp(op) == IF op = "Rename" THEN "Remove" ELSE op

\* a call that goes on to the push although diskSync failed
DiskNextIgnoreErr(op, r) == IF op = "Write" THEN "isdir" ELSE "send"

\* after the diskSync call: its error is returned; else Write goes on to
\* IsDir and the others to send
DiskNext(op, r) ==
    IF r = "err" THEN "ret"
    ELSE IF op = "Write" THEN "isdir" ELSE "send"

\* if !pcs.dest.LocalSyncDisabled() { if err := pcs.diskSync.X(path); ... }
LocalMirror ==
    /\ pc = "disk"
    /\ IF localSync
       THEN \E r \in {"ok", "err"} :
            /\ disk' = DiskOp(cur.op)
            /\ diskRes' = r
            /\ pc' = DiskNext(cur.op, r)
            /\ curRes' = IF pc' = "ret" THEN "err" ELSE curRes
       ELSE /\ pc' = DiskNext(cur.op, "ok")
            /\ UNCHANGED <<disk, diskRes, curRes>>
    /\ UNCHANGED <<auxVars, monVars, posts, pushCfg, cookies, ops, cur, walk, walkRoot,
                   inWalk, events, result, sentWith, signIns, signRes, resp1>>

\* Write: isDir, err := pcs.IsDir(path); a directory is synced with SyncOnce,
\* whose result is the result of the Write. IsDir answers as the walk's
\* DirEntry does.
WriteIsDir ==
    /\ pc = "isdir"
    /\ \E ok \in BOOLEAN :
        IF ~ok
        THEN /\ curRes' = "err"
             /\ pc' = "ret"
             /\ UNCHANGED <<walk, walkRoot, events>>
        ELSE IF cur.path \in Dirs
             THEN /\ walk' = WalkList(cur.path)
                  /\ walkRoot' = cur.path
                  /\ events' = <<>>
                  /\ pc' = "walk"
                  /\ UNCHANGED curRes
             ELSE /\ pc' = "send"
                  /\ UNCHANGED <<walk, walkRoot, events, curRes>>
    /\ UNCHANGED <<auxVars, monVars, posts, pushCfg, cookies, ops, cur, inWalk, result, disk,
                   diskRes, sentWith, signIns, signRes, resp1>>

\* send, up to the POST: IsDir, Open/Stat/MD5FromFile, GetFileTime, Rel and
\* Marshal, each of which can fail. IsDir answers as in Write, so the
\* `isDir && act == WriteAction` return is not taken.
SendPrepare ==
    /\ pc = "send"
    /\ \E ok \in BOOLEAN :
        /\ pc' = IF ok THEN "post" ELSE "ret"
        /\ curRes' = IF ok THEN curRes ELSE "err"
    /\ UNCHANGED <<auxVars, monVars, posts, pushCfg, cookies, ops, cur, walk, walkRoot,
                   inWalk, events, result, disk, diskRes, sentWith, signIns,
                   signRes, resp1>>

\* sendFile: a Write is posted as multipart/form-data with the file
\* (HttpPostFileWithCookie), anything else as a urlencoded form
PostKind(op) == IF op = "Write" THEN "file" ELSE "form"

\* what a POST can come back with: a transport error or a status
Responses == {"err", "200", "401", "404"}

\* httpPostWithAuth: the first POST and the look at its status
PostFirst ==
    /\ pc = "post"
    /\ \E r \in Responses :
        /\ sentWith' = Append(sentWith, cookies)
        /\ posts' = Append(posts, [kind |-> PostKind(cur.op), n |-> 1])
        /\ resp1' = r
        /\ pc' = CASE r = "err" -> "ret"
                   [] r = "401" /\ pushUser -> "signin"
                   [] r = "404" -> "ret"
                   [] OTHER -> "body"
        /\ curRes' = IF pc' = "ret" THEN "err" ELSE curRes
    /\ UNCHANGED <<auxVars, monVars, pushCfg, cookies, ops, cur, walk, walkRoot,
                   inWalk, events, result, disk, diskRes, signIns, signRes>>

\* a client that posts again whatever SignIn returned
SignInNextAlways(r) == "post2"

\* after client.SignIn: the retry needs len(cookies) > 0
SignInNext(r) == IF r = "cookies" THEN "post2" ELSE "ret"

\* httpPostWithAuth: auto login. url.Parse of the URL the POST was just
\* made to does not fail.
SignIn ==
    /\ pc = "signin"
    /\ \E r \in {"err", "empty", "cookies"} :
        /\ signIns' = signIns + 1
        /\ signRes' = r
        /\ cookies' = IF r = "cookies" THEN "signin" ELSE cookies
        /\ pc' = SignInNext(r)
        /\ curRes' = IF pc' = "ret" THEN "err" ELSE curRes
    /\ UNCHANGED <<auxVars, monVars, posts, pushCfg, ops, cur, walk, walkRoot, inWalk, events,
                   result, disk, diskRes, sentWith, resp1>>

\* httpPostWithAuth: the retry, whose response is returned as it is
PostRetry ==
    /\ pc = "post2"
    /\ \E r \in Responses :
        /\ sentWith' = Append(sentWith, cookies)
        /\ posts' = Append(posts, [kind |-> PostKind(cur.op), n |-> 2])
        /\ pc' = IF r = "err" THEN "ret" ELSE "body"
        /\ curRes' = IF r = "err" THEN "err" ELSE curRes
    /\ UNCHANGED <<auxVars, monVars, pushCfg, cookies, ops, cur, walk, walkRoot,
                   inWalk, events, result, disk, diskRes, signIns, signRes,
                   resp1>>

\* send, after the POST: ReadAll, Unmarshal of the ApiResult, the Code check
ReadResult ==
    /\ pc = "body"
    /\ \E ok \in BOOLEAN : curRes' = IF ok THEN "ok" ELSE "err"
    /\ pc' = "ret"
    /\ UNCHANGED <<auxVars, monVars, posts, pushCfg, cookies, ops, cur, walk, walkRoot,
                   inWalk, events, result, disk, diskRes, sentWith, signIns,
                   signRes, resp1>>

\* a callback that writes the file whatever Create returned
NeedsWriteAlways(c, r) == c.op = "Create" /\ c.path \notin Dirs

\* the SyncOnce callback after pcs.Create: if err == nil { pcs.Write }
NeedsWrite(c, r) == c.op = "Create" /\ c.path \notin Dirs /\ r = "ok"

SetLast(ev, r) == [ev EXCEPT ![Len(ev)].res = r]

\* the running call returns: to the outside, or to the SyncOnce callback,
\* which goes on to Write, returns the error to WalkDir (which stops), or
\* returns nil (WalkDir goes on)
Return ==
    /\ pc = "ret"
    /\ IF ~inWalk
       THEN /\ result' = curRes
            /\ pc' = "idle"
            /\ UNCHANGED <<cur, walk, inWalk, events, pushEvt>>
       ELSE IF NeedsWrite(cur, curRes)
            THEN /\ events' = Append(SetLast(events, curRes),
                                [op |-> "Write", path |-> cur.path, res |-> "run"])
                 /\ BeginCall("Write", cur.path, TRUE)
                 /\ UNCHANGED <<walk, result>>
            ELSE /\ events' = SetLast(events, curRes)
                 /\ IF curRes = "err"
                    THEN walk' = <<>> /\ result' = "err" /\ pc' = "idle"
                    ELSE walk' = Tail(walk) /\ pc' = "walk" /\ UNCHANGED result
                 /\ UNCHANGED <<cur, inWalk, pushEvt>>
    /\ UNCHANGED <<auxVars, monVars, posts, pushCfg, cookies, ops, walkRoot>>

\* WalkDir calls the callback: an error of the walk is returned, an ignored
\* path returns nil, anything else is created
WalkVisit ==
    /\ pc = "walk"
    /\ walk # <<>>
    /\ \E werr \in BOOLEAN :
        IF werr
        THEN /\ result' = "err"
             /\ walk' = <<>>
             /\ pc' = "idle"
             /\ UNCHANGED <<cur, inWalk, events, pushEvt>>
        ELSE IF Head(walk) \in ignored
             THEN /\ walk' = Tail(walk)
                  /\ UNCHANGED <<pc, cur, inWalk, events, result, pushEvt>>
             ELSE /\ events' = Append(events,
                                [op |-> "Create", path |-> Head(walk), res |-> "run"])
                  /\ BeginCall("Create", Head(walk), TRUE)
                  /\ UNCHANGED <<walk, result>>
    /\ UNCHANGED <<auxVars, monVars, posts, pushCfg, cookies, ops, walkRoot>>

\* WalkDir has visited everything: SyncOnce returns nil
WalkDone ==
    /\ pc = "walk"
    /\ walk = <<>>
    /\ result' = "ok"
    /\ pc' = "idle"
    /\ UNCHANGED <<auxVars, monVars, posts, pushCfg, cookies, ops, cur, walk, walkRoot,
                   inWalk, events, pushEvt>>

\* ------------------------------------------- the push client's handshake
NoHsFrame == [api |-> "None", code |-> "-", dup |-> FALSE]

\* the push client as NewPushClientSync has it when it calls start()
HsInit ==
    /\ hsUser \in BOOLEAN
    /\ hsConn = FALSE
    /\ hsPc = "init"
    /\ hsErr = "none"
    /\ hsRecvPc = "off"
    /\ hsFrame = NoHsFrame
    /\ hsAuthChan = <<>>
    /\ hsInfoChan = <<>>
    /\ hsWriter = "none"
    /\ hsSrv = {}
    /\ hsDups \in {0, ChanCap + 1}

\* info(), up to its select: the writer goroutine is spawned
HsInfoCall ==
    /\ hsWriter' = "Info"
    /\ hsPc' = "info"

\* start(): client.Connect(), receive(), then auth() up to its select;
\* without a user auth() returns nil and info() is called
HsConnect ==
    /\ hsPc = "init"
    /\ \E ok \in BOOLEAN :
        IF ok
        THEN /\ hsConn' = TRUE
             /\ hsRecvPc' = "top"
             /\ IF hsUser
                THEN hsWriter' = "Auth" /\ hsPc' = "auth"
                ELSE HsInfoCall
             /\ UNCHANGED hsErr
        ELSE /\ hsErr' = "connect"
             /\ hsPc' = "done"
             /\ UNCHANGED <<hsConn, hsRecvPc, hsWriter>>
    /\ UNCHANGED <<notHs, hsDups, hsUser, hsFrame, hsAuthChan, hsInfoChan, hsSrv>>

\* the writer goroutine of auth() or info(): pcs.client.Write(...), whose
\* error is only logged
HsWrite ==
    /\ hsWriter # "none"
    /\ hsWriter' = "none"
    /\ hsSrv' = IF hsConn THEN hsSrv \cup {hsWriter} ELSE hsSrv
    /\ UNCHANGED <<notHs, hsDups, hsUser, hsConn, hsPc, hsErr, hsRecvPc, hsFrame,
                   hsAuthChan, hsInfoChan>>

\* auth(): case status = <-pcs.authChan and the Code check; start() goes on
\* to info() or returns the error
HsAuthReply ==
    /\ hsPc = "auth"
    /\ hsAuthChan # <<>>
    /\ hsAuthChan' = Tail(hsAuthChan)
    /\ IF Head(hsAuthChan) = "ok"
       THEN HsInfoCall /\ UNCHANGED hsErr
       ELSE hsErr' = "auth" /\ hsPc' = "done" /\ UNCHANGED hsWriter
    /\ UNCHANGED <<notHs, hsDups, hsUser, hsConn, hsRecvPc, hsFrame, hsInfoChan,
                   hsSrv>>

\* auth(): case <-time.After(timeout); start() returns the error
HsAuthTimeout ==
    /\ hsPc = "auth"
    /\ hsErr' = "auth timeout"
    /\ hsPc' = "done"
    /\ UNCHANGED <<notHs, hsDups, hsUser, hsConn, hsRecvPc, hsFrame, hsAuthChan,
                   hsInfoChan, hsWriter, hsSrv>>

\* start() after info(): if err == nil { pcs.client.Close() }; return err
HsAfterInfo(err) == IF err = "nil" THEN FALSE ELSE hsConn

\* info(): case infoMsg = <-pcs.infoChan, Unmarshal and the Code check
HsInfoReply ==
    /\ hsPc = "info"
    /\ hsInfoChan # <<>>
    /\ hsInfoChan' = Tail(hsInfoChan)
    /\ hsErr' = IF Head(hsInfoChan) = "ok" THEN "nil" ELSE "info"
    /\ hsConn' = HsAfterInfo(hsErr')
    /\ hsSrv' = IF hsConn' THEN hsSrv ELSE {}
    /\ hsPc' = "done"
    /\ UNCHANGED <<notHs, hsDups, hsUser, hsRecvPc, hsFrame, hsAuthChan, hsWriter>>

\* info(): case <-time.After(timeout)
HsInfoTimeout ==
    /\ hsPc = "info"
    /\ hsErr' = "info timeout"
    /\ hsConn' = HsAfterInfo(hsErr')
    /\ hsSrv' = IF hsConn' THEN hsSrv ELSE {}
    /\ hsPc' = "done"
    /\ UNCHANGED <<notHs, hsDups, hsUser, hsRecvPc, hsFrame, hsAuthChan, hsInfoChan,
                   hsWriter>>

\* the peer drops the TCP connection
HsServerDrop ==
    /\ hsConn
    /\ hsConn' = FALSE
    /\ hsSrv' = {}
    /\ UNCHANGED <<notHs, hsDups, hsUser, hsPc, hsErr, hsRecvPc, hsFrame, hsAuthChan,
                   hsInfoChan, hsWriter>>

\* receive(): if pcs.client.IsClosed() { break }
HsRecvTop ==
    /\ hsRecvPc = "top"
    /\ hsRecvPc' = IF hsConn THEN "read" ELSE "exit"
    /\ UNCHANGED <<notHs, hsDups, hsUser, hsConn, hsPc, hsErr, hsFrame, hsAuthChan,
                   hsInfoChan, hsWriter, hsSrv>>

\* the replies the server can have sent: one to each command it got
HsFrames ==
    {[api |-> a, code |-> c, dup |-> FALSE] : a \in hsSrv, c \in {"ok", "fail"}}

\* a redundant Auth response: Success once more
HsDupFrames ==
    IF hsDups > 0 THEN {[api |-> "Auth", code |-> "ok", dup |-> TRUE]} ELSE {}

\* data, err := pcs.client.ReadAll() with err == nil, and Unmarshal
HsRecvFrame ==
    /\ hsRecvPc = "read"
    /\ hsConn
    /\ \E f \in HsFrames \cup HsDupFrames :
        /\ hsFrame' = f
        /\ hsSrv' = IF f.dup THEN hsSrv ELSE hsSrv \ {f.api}
        /\ hsDups' = IF f.dup THEN hsDups - 1 ELSE hsDups
    /\ hsRecvPc' = "dispatch"
    /\ UNCHANGED <<notHs, hsUser, hsConn, hsPc, hsErr, hsAuthChan, hsInfoChan,
                   hsWriter>>

\* ReadAll returned an error on a closed transport: break
HsRecvError ==
    /\ hsRecvPc = "read"
    /\ ~hsConn
    /\ hsRecvPc' = "exit"
    /\ UNCHANGED <<notHs, hsDups, hsUser, hsConn, hsPc, hsErr, hsFrame, hsAuthChan,
                   hsInfoChan, hsWriter, hsSrv>>

\* switch status.ApiType: a channel send blocks while the channel is full
HsRecvDispatch ==
    /\ hsRecvPc = "dispatch"
    /\ IF hsFrame.api = "Auth"
       THEN /\ Len(hsAuthChan) < ChanCap
            /\ hsAuthChan' = Append(hsAuthChan, hsFrame.code)
            /\ UNCHANGED hsInfoChan
       ELSE /\ Len(hsInfoChan) < ChanCap
            /\ hsInfoChan' = Append(hsInfoChan, hsFrame.code)
            /\ UNCHANGED hsAuthChan
    /\ hsFrame' = NoHsFrame
    /\ hsRecvPc' = "top"
    /\ UNCHANGED <<notHs, hsDups, hsUser, hsConn, hsPc, hsErr, hsWriter, hsSrv>>

\* ----------------------------------------- the URL the processor builds
\* Strings are sequences of characters; the name of a query key and a
\* number in decimal are written as one element each.
Chars == {"a", "/", "?", "%"}

RECURSIVE StringsUpTo(_)
StringsUpTo(n) ==
    IF n = 0 THEN {<<>>}
    ELSE LET S == StringsUpTo(n - 1)
         IN  S \cup {Append(t, c) : t \in {u \in S : Len(u) = n - 1}, c \in Chars}

\* msg.BaseUrl: the address of the file server and its source route
BaseUrls == {<<"h", "/">>, <<"h", "/", "s", "/">>}

\* strings.ReplaceAll(s, "?", "%3F")
RECURSIVE ReplaceQuestion(_)
ReplaceQuestion(str) ==
    IF str = <<>> THEN <<>>
    ELSE (IF Head(str) = "?" THEN <<"%", "3", "F">> ELSE <<Head(str)>>)
            \o ReplaceQuestion(Tail(str))

\* a processor that appends the path as it came
RawPath(path) == path

\* the path as it goes into the URL
SafePath(path) == ReplaceQuestion(path)

\* url.QueryEscape of one character
EscapeChar(c) ==
    CASE c = "?" -> <<"%", "3", "F">>
      [] c = "/" -> <<"%", "2", "F">>
      [] c = "%" -> <<"%", "2", "5">>
      [] OTHER -> <<c>>

RECURSIVE QueryEscape(_)
QueryEscape(str) ==
    IF str = <<>> THEN <<>>
    ELSE EscapeChar(Head(str)) \o QueryEscape(Tail(str))

\* the keys of the query in the order url.Values.Encode writes them (sorted)
QueryKeys == <<"atime", "ctime", "dir", "hash", "mtime", "size">>

\* what values.Add put under a key: the hash as it came, a number otherwise
QueryValue(k, hash) == IF k = "hash" THEN hash ELSE <<"1">>

\* values.Encode(): key=QueryEscape(value) joined with &
RECURSIVE EncodeFrom(_, _)
EncodeFrom(i, hash) ==
    IF i > Len(QueryKeys) THEN <<>>
    ELSE (IF i > 1 THEN <<"&">> ELSE <<>>)
            \o <<QueryKeys[i], "=">> \o QueryEscape(QueryValue(QueryKeys[i], hash))
            \o EncodeFrom(i + 1, hash)

Encode(hash) == EncodeFrom(1, hash)

\* path := msg.BaseUrl + strings.ReplaceAll(msg.Path, "?", "%3F")
\*             + fmt.Sprintf("?%s", values.Encode())
BuildPath(m) == m.base \o SafePath(m.path) \o <<"?">> \o Encode(m.hash)

NoUrl == <<>>

\* a message as the processor has unmarshalled it
UrlInit ==
    /\ urlIn \in [base : BaseUrls, path : StringsUpTo(MaxPathLen),
                  hash : StringsUpTo(MaxHashLen)]
    /\ urlOut = NoUrl

\* the processor builds the URL of the message
BuildUrl ==
    /\ urlOut = NoUrl
    /\ urlOut' = BuildPath(urlIn)
    /\ UNCHANGED <<notUrl, urlIn>>

\* ------------------------------------------------ the FileInfo records
\* Sizes are in KiB: an empty file, one block, a file of 16 GiB. What
\* Size() reports for a directory depends on the system: 0, or the size of
\* the directory file (one block).
FileSizes == {0, 4, 16777216}
DirSizes == {0, 4}
Entries == [isDir : {TRUE}, size : DirSizes] \cup [isDir : {FALSE}, size : FileSizes]

\* no FileInfo, and a send not made yet
NoInfo == [isDir |-> FALSE, size |-> 0, hash |-> ""]
NoSend == [res |-> "none", info |-> NoInfo]

\* the FileInfo of send(act, path) for a path that is a directory or a file
\* of the given size: IsDir is asked for Create and Write only, Stat and
\* MD5FromFile are for the Write of a file
SendInfo(act, e) ==
    LET isDir == act \in {"Create", "Write"} /\ e.isDir
        file == ~isDir /\ act = "Write"
    IN  [isDir |-> isDir,
         size |-> IF file THEN e.size ELSE 0,
         hash |-> IF file /\ e.size > 0 THEN "md5" ELSE ""]

\* readDir: the condition under which the file is opened and hashed
WantsHash(e, needHash, needCheckpoint, sum) ==
    /\ ~e.isDir
    /\ needHash \/ needCheckpoint
    /\ sum < MaxCalcSizeSum
    /\ e.size < MaxCalcSizeSingle

\* readDir: the FileInfo appended for an entry, hash being what the hash
\* functions gave
DirInfo(e, hash) == [isDir |-> e.isDir, size |-> e.size, hash |-> hash]

RECURSIVE SeqsUpTo(_, _)
SeqsUpTo(S, n) ==
    IF n = 0 THEN {<<>>}
    ELSE LET T == SeqsUpTo(S, n - 1)
         IN  T \cup {Append(t, x) : t \in {u \in T : Len(u) = n - 1}, x \in S}

\* a call of send and a call of readDir about to be made
FiInit ==
    /\ sendIn \in [act : Ops, entry : Entries]
    /\ sendOut = NoSend
    /\ dirIn \in [files : SeqsUpTo(Entries, MaxFiles), needHash : BOOLEAN,
                  needCheckpoint : BOOLEAN]
    /\ dirOut = <<>>
    /\ calcSizeSum = 0

\* send: an error of IsDir, Open, Stat, MD5FromFile, GetFileTime, Rel or
\* Marshal is returned; the Write of a directory returns nil; else the
\* PushData is posted
Send ==
    /\ sendOut = NoSend
    /\ \E ok \in BOOLEAN :
        sendOut' = IF ~ok THEN [res |-> "err", info |-> NoInfo]
                   ELSE IF sendIn.act = "Write" /\ sendIn.entry.isDir
                   THEN [res |-> "nil", info |-> NoInfo]
                   ELSE [res |-> "sent", info |-> SendInfo(sendIn.act, sendIn.entry)]
    /\ UNCHANGED <<notFi, sendIn, dirIn, dirOut, calcSizeSum>>

\* readDir: one turn of the loop over the entries. With needHash the hash
\* is the last checkpoint hash or that of HashFromFile, whose errors are
\* dropped; an entry that cannot be opened gets no hash
ReadDirEntry ==
    /\ Len(dirOut) < Len(dirIn.files)
    /\ LET e == dirIn.files[Len(dirOut) + 1]
           w == WantsHash(e, dirIn.needHash, dirIn.needCheckpoint, calcSizeSum)
       IN  /\ \E h \in {"", "hash"} :
                /\ h = "hash" => w /\ dirIn.needHash
                /\ dirOut' = Append(dirOut, DirInfo(e, h))
           /\ calcSizeSum' = IF w THEN calcSizeSum + e.size ELSE calcSizeSum
    /\ UNCHANGED <<notFi, sendIn, sendOut, dirIn>>

\* ------------------------------------------ the server-side connection
Checkers == 1..MaxCheckers

\* the clock is followed until the limit has passed
ClockEnd == AuthCheckLimit + 2

\* the connection as NewConn returns it
ConnInit ==
    /\ connAuthorized = FALSE
    /\ startAuthCheck = FALSE
    /\ connOpen = TRUE
    /\ now = 0
    /\ checkPc = [i \in Checkers |-> "off"]
    /\ checkEnd = [i \in Checkers |-> "none"]
    /\ closedAt = -1

\* a second passes
Tick ==
    /\ now < ClockEnd
    /\ now' = now + 1
    /\ UNCHANGED <<notConn, connAuthorized, startAuthCheck, connOpen, checkPc, checkEnd,
                   closedAt>>

\* MarkAuthorized: conn.authorized.Set(true)
MarkAuthorized ==
    /\ ~connAuthorized
    /\ connOpen
    /\ connAuthorized' = TRUE
    /\ UNCHANGED <<notConn, startAuthCheck, connOpen, now, checkPc, checkEnd, closedAt>>

\* StartAuthCheck: if the flag is not set, set it and start authCheck()
StartAuthCheck ==
    /\ ~startAuthCheck
    /\ \E i \in Checkers :
        /\ checkPc[i] = "off"
        /\ \A j \in Checkers : j < i => checkPc[j] # "off"
        /\ checkPc' = [checkPc EXCEPT ![i] = "flag"]
    /\ startAuthCheck' = TRUE
    /\ UNCHANGED <<notConn, connAuthorized, connOpen, now, checkEnd, closedAt>>

\* StopAuthCheck: conn.startAuthCheck.Set(false)
StopAuthCheck ==
    /\ startAuthCheck
    /\ startAuthCheck' = FALSE
    /\ UNCHANGED <<notConn, connAuthorized, connOpen, now, checkPc, checkEnd, closedAt>>

\* authCheck: if !conn.startAuthCheck.Get() { break }
CheckFlag(i) ==
    /\ checkPc[i] = "flag"
    /\ IF startAuthCheck
       THEN /\ checkPc' = [checkPc EXCEPT ![i] = "auth"]
            /\ UNCHANGED checkEnd
       ELSE /\ checkPc' = [checkPc EXCEPT ![i] = "exit"]
            /\ checkEnd' = [checkEnd EXCEPT ![i] = "stopped"]
    /\ UNCHANGED <<notConn, connAuthorized, startAuthCheck, connOpen, now, closedAt>>

\* authCheck: authorized := conn.authorized.Get(); if authorized { ... break }
CheckAuthorized(i) ==
    /\ checkPc[i] = "auth"
    /\ IF connAuthorized
       THEN /\ startAuthCheck' = FALSE
            /\ checkPc' = [checkPc EXCEPT ![i] = "exit"]
            /\ checkEnd' = [checkEnd EXCEPT ![i] = "authorized"]
       ELSE /\ checkPc' = [checkPc EXCEPT ![i] = "time"]
            /\ UNCHANGED <<startAuthCheck, checkEnd>>
    /\ UNCHANGED <<notConn, connAuthorized, connOpen, now, closedAt>>

\* a check that closes as soon as the minute is reached
ExpiredAtLimit(t) == t >= AuthCheckLimit - 1

\* time.Now().After(conn.connTime.Add(time.Minute))
Expired(t) == t > AuthCheckLimit

\* authCheck: else if !authorized && time.Now().After(...) { conn.Close();
\* ... break }, with authorized as it was read
CheckTime(i) ==
    /\ checkPc[i] = "time"
    /\ IF Expired(now)
       THEN /\ connOpen' = FALSE
            /\ closedAt' = IF closedAt = -1 THEN now ELSE closedAt
            /\ startAuthCheck' = FALSE
            /\ checkPc' = [checkPc EXCEPT ![i] = "exit"]
            /\ checkEnd' = [checkEnd EXCEPT ![i] = "closed"]
       ELSE /\ checkPc' = [checkPc EXCEPT ![i] = "sleep"]
            /\ UNCHANGED <<connOpen, closedAt, startAuthCheck, checkEnd>>
    /\ UNCHANGED <<notConn, connAuthorized, now>>

\* authCheck: <-time.After(time.Second)
CheckWake(i) ==
    /\ checkPc[i] = "sleep"
    /\ checkPc' = [checkPc EXCEPT ![i] = "flag"]
    /\ UNCHANGED <<notConn, connAuthorized, startAuthCheck, connOpen, now, checkEnd,
                   closedAt>>

\* ---------------------------------------------------------- specifications
\* a server whose messages are Creates, some of them ignored here, and a
\* local syncer that does not fail
PlainStream ==
    /\ payloads = {[kind |-> "ok", act |-> "Create"], [kind |-> "ignore", act |-> "-"]}
    /\ syncerErrs = {"nil"}

\* the push client is not used
PushOff ==
    /\ PushInit
    /\ pushUser = FALSE
    /\ localSync = FALSE
    /\ tree = {"r"}
    /\ ignored = {}

\* the push client's handshake is not running
HsOff == HsInit /\ hsUser = FALSE /\ hsDups = 0

\* no URL is built
UrlOff ==
    /\ urlIn = [base |-> <<"h", "/">>, path |-> <<>>, hash |-> <<>>]
    /\ urlOut = NoUrl

\* no FileInfo is built
FiOff ==
    /\ sendIn = [act |-> "Create", entry |-> [isDir |-> TRUE, size |-> 0]]
    /\ sendOut = NoSend
    /\ dirIn = [files |-> <<>>, needHash |-> FALSE, needCheckpoint |-> FALSE]
    /\ dirOut = <<>>
    /\ calcSizeSum = 0

\* no connection on the server side is followed
ConnOff == ConnInit

AuxOff == HsOff /\ UrlOff /\ FiOff /\ ConnOff

\* The session: a monitor with a user, -sync_once or cron, whose server
\* answers commands and drops connections but has no monitor message to
\* send; the processor, which touches none of the session's state, is left
\* out.
SessionInit ==
    /\ PushOff
    /\ AuxOff
    /\ MonInit
    /\ currentUser = TRUE
    /\ syncOnce \in BOOLEAN
    /\ srvMsgs = 0
    /\ PlainStream

SessionNext ==
    \/ StartConnect
    \/ StartLaunch
    \/ StartReturn
    \/ \E id \in authWriters : AuthWrite(id)
    \/ \E id \in authWaiters : AuthReply(id)
    \/ \E id \in authWaiters : AuthTimeout(id)
    \/ CronSync
    \/ InfoWrite
    \/ SyncReply
    \/ SyncTimeout
    \/ Shutdown
    \/ WatchShutdown
    \/ WatchClose
    \/ WatchDone
    \/ ServerDrop
    \/ RecvTop
    \/ RecvFrame
    \/ RecvError
    \/ RecvRetry
    \/ RecvReauth
    \/ RecvDispatch

SpecSession == SessionInit /\ [][SessionNext]_vars

\* The stream: an anonymous monitor without -sync_once and without cron,
\* whose server streams monitor messages and drops connections.
StreamInit ==
    /\ PushOff
    /\ AuxOff
    /\ MonInit
    /\ currentUser = FALSE
    /\ syncOnce = FALSE
    /\ srvMsgs = MaxMsgs
    /\ PlainStream

StreamNext ==
    \/ StartConnect
    \/ StartLaunch
    \/ StartReturn
    \/ Shutdown
    \/ WatchShutdown
    \/ WatchClose
    \/ WatchDone
    \/ ServerDrop
    \/ RecvTop
    \/ RecvFrame
    \/ RecvError
    \/ RecvRetry
    \/ RecvReauth
    \/ RecvDispatch
    \/ ProcFront
    \/ ProcWake
    \/ ProcApply

SpecStream == StreamInit /\ [][StreamNext]_vars

\* The push client: one call from outside on a tree with an ignore policy.
MonOff ==
    /\ MonInit
    /\ currentUser = FALSE
    /\ syncOnce = FALSE
    /\ srvMsgs = 0
    /\ PlainStream

PushSpecInit == PushInit /\ MonOff /\ AuxOff

PushNext ==
    \/ \E p \in tree : PcsCreate(p)
    \/ \E p \in tree : PcsWrite(p)
    \/ \E p \in tree : PcsRemove(p)
    \/ \E p \in tree : PcsRename(p)
    \/ \E p \in tree : PcsSyncOnce(p)
    \/ LocalMirror
    \/ WriteIsDir
    \/ SendPrepare
    \/ PostFirst
    \/ SignIn
    \/ PostRetry
    \/ ReadResult
    \/ Return
    \/ WalkVisit
    \/ WalkDone

SpecPush == PushSpecInit /\ [][PushNext]_vars

\* The processor: an anonymous monitor that is not shut down, on a
\* connection that stays, with messages of every kind and action and a
\* local syncer that can fail.
ProcInit ==
    /\ PushOff
    /\ AuxOff
    /\ MonInit
    /\ currentUser = FALSE
    /\ syncOnce = FALSE
    /\ srvMsgs = MaxMsgs
    /\ payloads = Payloads
    /\ syncerErrs = SyncerResults

ProcNext ==
    \/ StartConnect
    \/ StartLaunch
    \/ RecvTop
    \/ RecvFrame
    \/ RecvDispatch
    \/ ProcFront
    \/ ProcWake
    \/ ProcApply

SpecProc == ProcInit /\ [][ProcNext]_vars

\* The handshake of the push client: NewPushClientSync calls start().
StartInit == HsInit /\ hsDups = 0 /\ MonOff /\ PushOff /\ UrlOff /\ FiOff /\ ConnOff

StartNext ==
    \/ HsConnect
    \/ HsWrite
    \/ HsAuthReply
    \/ HsAuthTimeout
    \/ HsInfoReply
    \/ HsInfoTimeout
    \/ HsServerDrop
    \/ HsRecvTop
    \/ HsRecvFrame
    \/ HsRecvError
    \/ HsRecvDispatch

SpecStart == StartInit /\ [][StartNext]_vars

\* The handshake with a server that repeats its Auth response.
FloodInit ==
    /\ HsInit
    /\ hsUser = TRUE
    /\ hsDups = ChanCap + 1
    /\ MonOff /\ PushOff /\ UrlOff /\ FiOff /\ ConnOff

SpecFlood == FloodInit /\ [][StartNext]_vars

\* The URL of every message with a short path and hash.
UrlSpecInit == UrlInit /\ MonOff /\ PushOff /\ HsOff /\ FiOff /\ ConnOff

UrlNext == BuildUrl

SpecUrl == UrlSpecInit /\ [][UrlNext]_vars

\* The FileInfo records of one send and of one readDir.
FiSpecInit == FiInit /\ MonOff /\ PushOff /\ HsOff /\ UrlOff /\ ConnOff

FiNext == Send \/ ReadDirEntry

SpecFileInfo == FiSpecInit /\ [][FiNext]_vars

\* A connection the server accepted, its auth check and its clock.
ConnSpecInit == ConnInit /\ MonOff /\ PushOff /\ HsOff /\ UrlOff /\ FiOff

ConnNext ==
    \/ Tick
    \/ MarkAuthorized
    \/ StartAuthCheck
    \/ StopAuthCheck
    \/ \E i \in Checkers : CheckFlag(i)
    \/ \E i \in Checkers : CheckAuthorized(i)
    \/ \E i \in Checkers : CheckTime(i)
    \/ \E i \in Checkers : CheckWake(i)

SpecConn == ConnSpecInit /\ [][ConnNext]_vars

\* time passes, and each auth-check goroutine takes its next step
FairConn ==
    /\ SpecConn
    /\ WF_vars(Tick)
    /\ \A i \in Checkers :
          WF_vars(CheckFlag(i) \/ CheckAuthorized(i) \/ CheckTime(i) \/ CheckWake(i))

\* Go schedules every runnable goroutine: Start, the watcher, the receive
\* loop and the processor each take their next step when they have one
FairStream ==
    /\ SpecStream
    /\ WF_vars(StartConnect \/ StartLaunch \/ StartReturn)
    /\ WF_vars(WatchShutdown \/ WatchClose \/ WatchDone)
    /\ WF_vars(RecvTop \/ RecvError \/ RecvRetry \/ RecvReauth \/ RecvDispatch)
    /\ WF_vars(ProcFront \/ ProcWake \/ ProcApply)

\* ------------------------------------------------------------------ claims
\* C1: with a user configured, the monitor writes no InfoCommand on a
\* connection on which no Auth reply with Code=Success has been received,
\* also for a sync() made after a reconnect.
C1_NoInfoBeforeAuthSuccess == ~infoUnauth

\* C2: once Close() has returned, the processor makes no syncer call.
C2_NoEffectAfterClose ==
    \A i \in 1..Len(applied) : ~applied[i].afterClose

\* C3: the syncer calls for the SyncMessage frames of one connection
\* generation are made in the order the receive loop read the frames, each
\* frame at most once.
C3_AppliedInReceiveOrder ==
    \A i, j \in 1..Len(applied) :
        /\ (i # j => applied[i].id # applied[j].id)
        /\ (applied[i].gen = applied[j].gen /\ applied[i].id < applied[j].id
              => i < j)

\* C3 witness: two frames of one generation were queued together, the
\* second pushed while the first was still in the list, and both applied.
C3_Witness ==
    /\ Len(applied) >= 2
    /\ applied[1].gen = applied[2].gen
    /\ procPc = "sleep"

\* C4: once the shutdown watcher has closed the monitor, the reconnect
\* retry makes no Connect(): the transport closed by Close() stays closed.
C4_ClosedStaysClosed == closed => ~connected

\* C5: with shutdown signalled and the queue drained, the processor loop
\* terminates.
C5_ProcessorTerminates ==
    (procPc # "off" /\ shutdown /\ messages = <<>>) ~> (procPc = "done")

\* C6: at most one auth() waits on authChan and at most one sync() waits
\* on infoChan.
C6_OneAuthOneInfoInFlight ==
    /\ Cardinality(authWaiters) <= 1
    /\ syncWaiters <= 1

\* C7: as long as auth() calls never overlapped, the Auth reply at the head
\* of authChan answers the auth() call that is waiting: no reply of an
\* earlier call is left in the channel for it.
C7_AuthReplyAnswersWaiter ==
    (~authOverlap /\ startPc # "failed")
        => \A id \in authWaiters :
              authChan # <<>> => Head(authChan).req = id

\* the running (or last) push call has returned
Returned == curRes \in {"ok", "err"}

\* C8: a push call whose first POST is answered 401 with a user configured
\* calls SignIn exactly once; with cookies returned it replaces the session
\* cookies and posts once more, whatever the answer; without cookies it
\* fails and posts no more. Never more than two POSTs and one SignIn.
C8_OneSignInOneRetry ==
    /\ Len(sentWith) <= 2
    /\ signIns <= 1
    /\ (signIns = 1 => resp1 = "401" /\ pushUser)
    /\ (Len(sentWith) = 2 =>
            signIns = 1 /\ signRes = "cookies" /\ sentWith[2] = "signin")
    /\ (Returned /\ resp1 = "401" /\ pushUser =>
            /\ signIns = 1
            /\ (signRes = "cookies" => Len(sentWith) = 2 /\ cookies = "signin")
            /\ (signRes # "cookies" => Len(sentWith) = 1 /\ curRes = "err"))

\* C8 witness: 401, one SignIn with cookies, the retry accepted
C8_Witness ==
    /\ curRes = "ok"
    /\ resp1 = "401"
    /\ signIns = 1
    /\ Len(sentWith) = 2

\* C9: with local sync enabled a Create, Write, Remove or Rename invokes its
\* diskSync method before any POST, and a diskSync error ends the call with
\* an error and without a POST; with local sync disabled no diskSync
\* mutation is invoked.
C9_LocalMirrorFirst ==
    /\ (~localSync => disk = "none")
    /\ (localSync /\ cur.op \in Ops /\ pc # "disk" => disk # "none")
    /\ (localSync /\ Len(sentWith) >= 1 => disk # "none" /\ diskRes = "ok")
    /\ (diskRes = "err" => sentWith = <<>> /\ curRes = "err")

\* C9 witness: a Rename with local sync that has been mirrored and posted
C9_Witness ==
    /\ localSync
    /\ cur.op = "Rename"
    /\ diskRes = "ok"
    /\ Len(sentWith) >= 1

Pos(p) == CHOOSE i \in 1..Len(WalkOrder) : WalkOrder[i] = p
Created == {events[i].path : i \in {j \in 1..Len(events) : events[j].op = "Create"}}
Written == {events[i].path : i \in {j \in 1..Len(events) : events[j].op = "Write"}}
Visited == {p \in tree : Under(p, walkRoot)}

\* C10: SyncOnce emits for every file it visits and does not ignore one
\* Create directly followed by one Write (the Write only after a Create
\* that succeeded), for every such directory one Create and no Write; the
\* first error of a Create or Write ends the traversal and is returned.
C10_SyncOnceEvents ==
    /\ \A i \in 1..Len(events) :
        LET e == events[i] IN
        /\ e.path \in Visited \ ignored
        /\ (i < Len(events) => e.res = "ok")
        /\ (e.res = "err" => pc = "ret" \/ result = "err")
        /\ (e.op = "Write" =>
               /\ e.path \notin Dirs
               /\ i > 1
               /\ events[i - 1] = [op |-> "Create", path |-> e.path, res |-> "ok"])
        /\ (e.op = "Create" /\ i > 1 => Pos(events[i - 1].path) < Pos(e.path))
        /\ (e.op = "Create" /\ e.path \notin Dirs /\ e.res = "ok" =>
               \/ i = Len(events) /\ pc = "ret"
               \/ i < Len(events) /\ events[i + 1].op = "Write"
                                  /\ events[i + 1].path = e.path)
    /\ (walkRoot # "-" /\ pc = "idle" /\ result = "ok" =>
            /\ Created = Visited \ ignored
            /\ Written = (Visited \ ignored) \ Dirs)

\* C10 witness: a SyncOnce of the whole tree, nothing ignored, has returned
\* nil after the Create and Write of both files
C10_Witness ==
    /\ walkRoot = "r"
    /\ pc = "idle"
    /\ result = "ok"
    /\ Written = {"r/b", "r/dir1/a"}

\* the events of the SyncOnce callback without their results
EventSeq == [i \in 1..Len(events) |-> <<events[i].op, events[i].path>>]

\* the kinds of the POSTs made, a retry after SignIn not counted again
FirstPosts == SelectSeq(posts, LAMBDA q : q.n = 1)
PostKinds == [i \in 1..Len(FirstPosts) |-> FirstPosts[i].kind]

\* SyncOnce of the root of the tree root/{dir1/, dir1/a, b}, nothing
\* ignored, has returned nil
SyncedWholeTree ==
    /\ walkRoot = "r"
    /\ tree = Paths
    /\ ignored = {}
    /\ pc = "idle"
    /\ result = "ok"

\* C11 as stated: SyncOnce of root/{dir1/, dir1/a, b} emits exactly
\* Create(dir1), Create(dir1/a), Write(dir1/a), Create(b), Write(b), nothing
\* for the root, and the server gets 3 urlencoded and 2 multipart POSTs.
C11_EventsBelowRootOnly ==
    SyncedWholeTree =>
        /\ EventSeq = << <<"Create", "r/dir1">>, <<"Create", "r/dir1/a">>,
                         <<"Write", "r/dir1/a">>, <<"Create", "r/b">>,
                         <<"Write", "r/b">> >>
        /\ PostKinds = <<"form", "form", "file", "form", "file">>

\* C11 amended: the walk starts at the root and takes the names of a
\* directory in lexical order: Create(root), Create(b), Write(b),
\* Create(dir1), Create(dir1/a), Write(dir1/a); the server gets one POST
\* per event (and its retry after a 401): 4 urlencoded and 2 multipart.
C11_EventsInWalkDirOrder ==
    SyncedWholeTree =>
        /\ EventSeq = << <<"Create", "r">>, <<"Create", "r/b">>, <<"Write", "r/b">>,
                         <<"Create", "r/dir1">>, <<"Create", "r/dir1/a">>,
                         <<"Write", "r/dir1/a">> >>
        /\ PostKinds = <<"form", "form", "file", "form", "form", "file">>

\* C11 witness: that SyncOnce has returned nil after six POSTs
C11_Witness == SyncedWholeTree /\ Len(posts) = 6

\* start() has returned the error of a handshake wait that timed out
HsTimedOut == hsPc = "done" /\ hsErr \in {"auth timeout", "info timeout"}

\* C12: when the wait for the Auth reply or for the Info reply times out,
\* start() returns the timeout error with the control transport closed,
\* and the receive loop it started ends.
C12_TimeoutClosesTransport == HsTimedOut => ~hsConn

\* the number of question marks in a string
RECURSIVE Questions(_)
Questions(str) ==
    IF str = <<>> THEN 0
    ELSE (IF Head(str) = "?" THEN 1 ELSE 0) + Questions(Tail(str))

\* where the path begins and ends in the URL built
PathFrom == Len(urlIn.base) + 1
PathTo == Len(urlIn.base) + Len(urlIn.path) + 2 * Questions(urlIn.path)

\* C13: in the URL built from a message the path follows BaseUrl with each
\* of its question marks written %3F and none left, then comes the one
\* question mark that separates path and query, then the encoded values,
\* which hold no question mark.
C13_OneSeparator ==
    urlOut # NoUrl =>
        /\ Len(urlOut) > PathTo
        /\ SubSeq(urlOut, 1, Len(urlIn.base)) = urlIn.base
        /\ Questions(SubSeq(urlOut, PathFrom, PathTo)) = 0
        /\ urlOut[PathTo + 1] = "?"
        /\ Questions(SubSeq(urlOut, PathTo + 2, Len(urlOut))) = 0
        /\ Questions(urlOut) = 1
        /\ \A i \in 1..Len(urlIn.path) :
              LET at == PathFrom + (i - 1) + 2 * Questions(SubSeq(urlIn.path, 1, i - 1))
              IN  IF urlIn.path[i] = "?"
                  THEN SubSeq(urlOut, at, at + 2) = <<"%", "3", "F">>
                  ELSE urlOut[at] = urlIn.path[i]

\* C13 witness: the URL of a path with two question marks and of a hash
\* that is one
C13_Witness ==
    /\ urlOut # NoUrl
    /\ Questions(urlIn.path) = 2
    /\ urlIn.hash = <<"?">>

\* the FileInfo records built so far
Records ==
    {dirOut[i] : i \in 1..Len(dirOut)}
        \cup (IF sendOut.res = "sent" THEN {sendOut.info} ELSE {})

\* C14: every FileInfo built for a directory, by send or by readDir, has
\* size 0 and an empty hash.
C14_DirectoryRecords ==
    \A r \in Records : r.isDir => r.size = 0 /\ r.hash = ""

\* the auth-check goroutines started have all left their loop
ChecksEnded ==
    /\ \E i \in Checkers : checkPc[i] = "exit"
    /\ \A i \in Checkers : checkPc[i] \in {"off", "exit"}

\* C15 as stated: the auth-check goroutine leaves its loop only when it
\* has seen authorized=true or has closed the connection, so once it has
\* ended on a connection that was not authorized, the connection is closed.
C15_EndsAuthorizedOrClosed ==
    ChecksEnded /\ ~connAuthorized => ~connOpen

\* C15 amended: every auth-check goroutine terminates; it leaves its loop
\* without closing when it sees the flag cleared by StopAuthCheck or
\* authorized=true, and closes the connection when it has read
\* authorized=false and more than 60 seconds have passed since connect,
\* never earlier; a connection never authorized whose check is not stopped
\* is eventually closed.
C15_AuthCheckTerminates ==
    /\ [](/\ \A i \in Checkers :
              /\ checkEnd[i] = "authorized" => connAuthorized
              /\ checkEnd[i] = "closed" => ~connOpen
              /\ checkPc[i] = "exit" <=> checkEnd[i] # "none"
          /\ closedAt # -1 => closedAt > AuthCheckLimit
          /\ ~connOpen <=> \E i \in Checkers : checkEnd[i] = "closed")
    /\ \A i \in Checkers : (checkPc[i] # "off") ~> (checkPc[i] = "exit")
    /\ (\E i \in Checkers : checkPc[i] # "off")
          ~> \/ connAuthorized
             \/ ~connOpen
             \/ \E i \in Checkers : checkEnd[i] = "stopped"

\* C15 witness: a check closed the connection, never authorized and never
\* stopped, after the minute
C15_Witness ==
    /\ checkEnd[1] = "closed"
    /\ checkPc[2] = "off"
    /\ ~connAuthorized
    /\ closedAt > AuthCheckLimit

\* C16: after the reconnect retry the receive loop spawns auth() again
\* only if the transport is connected again (and a user is configured),
\* not when the retry gave up with the transport still closed.
C16_ReauthOnlyWhenReconnected ==
    [][recvPc = "reconnected" /\ nextAuth' # nextAuth => connected]_vars

\* C17: the receive loop is never blocked with an Auth response in hand:
\* the hand-over to authChan can always be made (the frame dropped when
\* the channel is full), also when 100 of them wait with no auth() to
\* take them.
C17_DispatchNeverBlocks ==
    hsRecvPc = "dispatch" /\ hsFrame.api = "Auth" => ENABLED HsRecvDispatch

\* C18: a message is handled once and then is gone from the list, whatever
\* came of it, so the messages behind it are handled in their turn; for a
\* message that does not unmarshal, has an error Code or is ignored no
\* syncer call is made.
C18_OneAttemptThenRemoved ==
    /\ \A id \in 1..MaxMsgs : taken[id] <= 1
    /\ \A i \in 1..Len(messages) : taken[messages[i].id] = 0
    /\ \A id \in 2..MaxMsgs : taken[id] = 1 => taken[id - 1] = 1
    /\ lastMsg.kind \in {"ignore", "bad", "errcode"} =>
          lastCalls = <<>> /\ lastErr = "-"

\* C18 witness: the second message was applied after the first, which came
\* to no syncer call, was handled and removed
C18_Witness ==
    /\ taken[1] = 1
    /\ lastMsg.id = 2
    /\ lastMsg.kind = "ok"
    /\ Len(applied) = 1
    /\ messages = <<>>

\* the calls the processor is to make for each action
ExpectedCalls ==
    [a \in Actions |->
        CASE a = "Create" -> <<"syncer.Create">>
          [] a = "Symlink" -> <<"syncer.Symlink">>
          [] a = "Write" -> <<"syncer.Create", "addWrite">>
          [] a = "Remove" -> <<"removeWrite", "syncer.Remove">>
          [] a = "Rename" -> <<"syncer.Rename">>
          [] a = "Chmod" -> <<"syncer.Chmod">>]

\* C19: for a well-formed message that is not ignored the processor makes
\* the calls of its action: Create, Symlink, Create then addWrite for a
\* Write (a not-exist error dropped), removeWrite then Remove, Rename,
\* Chmod.
C19_ActionDispatch ==
    lastMsg.kind = "ok" =>
        /\ lastCalls = ExpectedCalls[lastMsg.act]
        /\ lastMsg.act = "Write" => lastErr # "notexist"

\* the directories above a path
RECURSIVE Above(_)
Above(p) == IF p = "r" THEN {} ELSE {Parent[p]} \cup Above(Parent[p])

\* C20: SyncOnce emits no event for an entry that matches the ignore
\* policy, nor for any entry below a directory of the walk that matches it.
C20_IgnoredSubtreeSkipped ==
    \A i \in 1..Len(events) :
        /\ events[i].path \notin ignored
        /\ \A d \in Above(events[i].path) \cap ignored : ~Under(d, walkRoot)

\* C21: whenever authorized is true, an Auth reply with Code=Success was
\* read on the connection the monitor has now: a reply of an earlier
\* connection does not leave authorized true on a reconnected one.
C21_AuthorizedOnThisConnection == authorized => authOkConn

\* C22: the wait handle of receive() is never completed first by the
\* receive loop with the error "remote monitor is closed": after a
\* Shutdown() its first completion is the Done() of the watcher.
C22_FirstCompletionIsDone == wd # "err"

\* C23: the auth check closes no connection that MarkAuthorized has
\* marked: a connection that is authorized is open.
C23_NeverClosesAuthorized == connAuthorized => connOpen

====
